---- MODULE Spec2Model ----
(***************************************************************************)
(* Model of the research pipeline of Autonomous-Research-Assistant:        *)
(* the policy selector (DirectorAgent.next_step), the six stage functions  *)
(* and the run loop that drives them (backend/core/workflow.py).           *)
(*                                                                         *)
(* Text the code inspects character by character (advisory responses,      *)
(* sub-query lines, summaries) is a sequence of one-character strings, so  *)
(* that lower(), strip(), split() and the substring test "x in s" are      *)
(* computed and not assumed.  Urls and titles are opaque identifiers.       *)
(***************************************************************************)
EXTENDS Integers, Sequences, FiniteSets, Bags, TLC

VARIABLES
    state,      \* the ResearchState the caller holds
    lastOp,     \* name of the last operation applied to it
    outcome,    \* "ok": the operation returned, "raised": it raised
    batch,      \* the urls the last collect_data / verify_data selected (a bag)
    failed,     \* those of them whose external call failed (a bag)
    passed,     \* the state object the last stage was called with, as it is now
    answer,     \* the text the model returned to the last generate_subqueries
    content,    \* the advisory response of the last next_step call
    action,     \* the action the last next_step call returned
    calls,      \* the number of stage invocations so far
    pc,         \* where run_research_workflow is
    iter,       \* the passes of its for loop begun so far
    max_iterations,
    routed,     \* the action the graph's director node last returned
    asked,      \* the next_step calls made since the current pass began
    research_tasks, \* the task registry of api/research.py: task id -> record
    reply       \* the answer to the last request made to the API

vars == <<state, lastOp, outcome, batch, failed, passed, answer, content, action, calls,
          pc, iter, max_iterations, routed, asked, research_tasks, reply>>

stage_vars == <<state, lastOp, outcome, batch, failed, passed, answer, calls>>
api_vars == <<research_tasks, reply>>
loop_vars == <<pc, iter, max_iterations, routed, asked>>
run_vars == <<pc, iter, max_iterations, routed, asked, research_tasks, reply>>

----------------------------------------------------------------------------
(* Bounds of the model *)

\* an advisory response is a concatenation of at most MaxFrags fragments
MaxFrags == 2

\* at most MaxCalls stage invocations are followed
MaxCalls == 2

\* run_research_workflow is called with max_iterations in 0..MaxIter
MaxIter == 1

----------------------------------------------------------------------------
(* Text *)

\* str.lower() on the letters the model uses; every other character is kept
UpperToLower ==
    ("G" :> "g") @@ ("S" :> "s") @@ ("E" :> "e") @@ ("A" :> "a") @@
    ("R" :> "r") @@ ("C" :> "c") @@ ("H" :> "h") @@ ("V" :> "v") @@
    ("Q" :> "q") @@ ("U" :> "u") @@ ("I" :> "i") @@ ("O" :> "o") @@
    ("P" :> "p") @@ ("T" :> "t") @@ ("N" :> "n") @@ ("B" :> "b")

Lower(s) ==
    [i \in 1..Len(s) |->
        IF s[i] \in DOMAIN UpperToLower THEN UpperToLower[s[i]] ELSE s[i]]

\* Python's "needle in hay" on strings
Contains(hay, needle) ==
    \E i \in 0..(Len(hay) - Len(needle)) :
        SubSeq(hay, i + 1, i + Len(needle)) = needle

IsSpace(ch) == ch \in {" ", "\n"}

\* str.strip()
RECURSIVE LStrip(_)
LStrip(s) == IF s # <<>> /\ IsSpace(Head(s)) THEN LStrip(Tail(s)) ELSE s

RECURSIVE RStrip(_)
RStrip(s) ==
    IF s # <<>> /\ IsSpace(s[Len(s)]) THEN RStrip(SubSeq(s, 1, Len(s) - 1)) ELSE s

Strip(s) == RStrip(LStrip(s))

\* str.split('\n'): the pieces between newlines, empty pieces kept
RECURSIVE SplitLines(_)
SplitLines(s) ==
    IF \E i \in 1..Len(s) : s[i] = "\n"
    THEN LET i == CHOOSE j \in 1..Len(s) :
                      s[j] = "\n" /\ \A k \in 1..(j - 1) : s[k] # "\n"
         IN  <<SubSeq(s, 1, i - 1)>> \o SplitLines(SubSeq(s, i + 1, Len(s)))
    ELSE <<s>>

RECURSIVE Concat(_)
Concat(ss) == IF ss = <<>> THEN <<>> ELSE Head(ss) \o Concat(Tail(ss))

SeqsUpTo(S, n) == UNION {[1..k -> S] : k \in 0..n}

IsPrefix(s, t) == Len(s) <= Len(t) /\ SubSeq(t, 1, Len(s)) = s

----------------------------------------------------------------------------
(* The action names *)

W_generate_ == <<"g","e","n","e","r","a","t","e","_">>
W_subqueries == <<"s","u","b","q","u","e","r","i","e","s">>
W_subqeries == <<"s","u","b","q","e","r","i","e","s">>
W_search == <<"s","e","a","r","c","h">>
W_collect == <<"c","o","l","l","e","c","t">>
W_verify == <<"v","e","r","i","f","y">>
W_summarize == <<"s","u","m","m","a","r","i","z","e">>
W_report == <<"r","e","p","o","r","t">>

\* the action names as the prompt spells them (director_agent.py:48-53)
ActionText ==
    [generate_subqueries |-> W_generate_ \o W_subqueries,
     search |-> W_search,
     collect |-> W_collect,
     verify |-> W_verify,
     summarize |-> W_summarize,
     generate_report |-> W_generate_ \o W_report]

\* the actions the workflow graph has an edge for (workflow.py 42-48)
GraphActions ==
    {"generate_subqueries", "search", "collect", "verify", "summarize",
     "generate_report", "complete"}

----------------------------------------------------------------------------
(* DirectorAgent.next_step: the response text decides, the state only feeds *)
(* the prompt.                                                             *)

\* the literal tested first at director_agent.py:97
SubqueriesKeyword == W_generate_ \o W_subqeries

DefaultActionUnknown(c) == "continue"

\* the else branch, director_agent.py:109-111
DefaultAction(c) == "search"

next_step_unfolded(c) ==
    IF      Contains(c, SubqueriesKeyword)          THEN "generate_subqueries"
    ELSE IF Contains(c, W_search)                   THEN "search"
    ELSE IF Contains(c, W_collect)                  THEN "collect"
    ELSE IF Contains(c, W_verify)                   THEN "verify"
    ELSE IF Contains(c, W_summarize)                THEN "summarize"
    ELSE IF Contains(c, W_generate_ \o W_report)    THEN "generate_report"
    ELSE DefaultAction(c)

\* director_agent.py:93-111; every test is made on content.lower()
next_step(c) == next_step_unfolded(Lower(c))

----------------------------------------------------------------------------
(* ResearchState and the records it holds.                                 *)
(* An Optional[str] is <<>> for None and <<text>> for a string.  A url is  *)
(* a number, 0 standing for the empty string (a result without "url").     *)

NumUrls == 4            \* the start states hold the urls 1..NumUrls
MaxSearchResults == 1   \* no search call is made once this many SearchResults exist

None == <<>>
Some(text) == <<text>>
\* Python truthiness of an Optional[str]
Truthy(opt) == opt # None /\ opt[1] # <<>>

Q_main == <<"X">>
Q_ai   == <<"a","i">>
Q_nlp  == <<"n","l","p">>

Result(u) == [url |-> u, title |-> "t"]
SearchResult(q, rs) == [query |-> q, results |-> rs]
CollectedData(u, t) == [url |-> u, title |-> t]
VerifiedData(d, sc, n) == [url |-> d.url, title |-> d.title, score |-> sc, notes |-> n]

\* DirectorAgent.initialize_research
initialize_research(q) ==
    [query |-> q, sub_queries |-> <<>>, search_results |-> <<>>,
     collected_data |-> <<>>, verified_data |-> <<>>,
     summary |-> None, report |-> None, status |-> "initialized"]

\* what an external call hands back: a text, or an exception
Returned(text) == [ok |-> TRUE, text |-> text]
Failure == [ok |-> FALSE, text |-> <<>>]

Urls(items) == {items[i].url : i \in 1..Len(items)}
NoDuplicateUrls(items) ==
    \A i, j \in 1..Len(items) : items[i].url = items[j].url => i = j

SelectionsAll(xs, n) ==
    {sel \in [1..Len(xs) -> 1..Len(xs)] : \A i, j \in 1..Len(xs) : sel[i] = sel[j] => i = j}

\* random.shuffle(xs); xs[:n]: any n distinct positions of xs, in any order
Selections(xs, n) ==
    LET k == IF Len(xs) < n THEN Len(xs) ELSE n IN
    {sel \in [1..k -> 1..Len(xs)] : \A i, j \in 1..k : sel[i] = sel[j] => i = j}

----------------------------------------------------------------------------
(* DirectorAgent.generate_subqueries, director_agent.py:113-153 *)

AppendAll(subs, lines) == subs \o lines

\* lines 149-151: append each parsed line that is not yet in the list
RECURSIVE AppendNew(_, _)
AppendNew(subs, lines) ==
    IF lines = <<>> THEN subs
    ELSE AppendNew(IF \E i \in 1..Len(subs) : subs[i] = Head(lines)
                   THEN subs ELSE Append(subs, Head(lines)),
                   Tail(lines))

\* line 145: [q.strip() for q in content.strip().split('\n') if q.strip()]
ParseSubqueries(text) ==
    LET lines == SplitLines(Strip(text))
        stripped == [i \in 1..Len(lines) |-> Strip(lines[i])]
        NonEmpty(q) == q # <<>>
    IN  SelectSeq(stripped, NonEmpty)

generate_subqueries(s, resp) ==
    IF ~resp.ok THEN [state |-> s, raised |-> TRUE]      \* gpt.invoke, line 137
    ELSE [state |-> [s EXCEPT !.sub_queries = AppendNew(@, ParseSubqueries(resp.text))],
          raised |-> FALSE]

----------------------------------------------------------------------------
(* SearchAgent.search, search_agent.py:75-115 *)

\* lines 84-90: a sub-query is queued as the string itself, the root query
\* as the pair ("main", query)
QueuedString(q) == [kind |-> "str", a |-> "", b |-> q]
QueuedPair(q) == [kind |-> "pair", a |-> "main", b |-> q]

queries_to_search(s) ==
    LET Unsearched(q) ==
            ~\E i \in 1..Len(s.search_results) : s.search_results[i].query = q
    IN  IF s.sub_queries # <<>>
        THEN LET pending == SelectSeq(s.sub_queries, Unsearched)
             IN  [i \in 1..Len(pending) |-> QueuedString(pending[i])]
        ELSE IF Unsearched(s.query) THEN <<QueuedPair(s.query)>> ELSE <<>>

\* line 93, "for query_type, query_text in ...": a pair unpacks; a string
\* unpacks only when it has exactly two characters (into those characters),
\* and raises ValueError otherwise
Unpacks(e) == e.kind = "pair" \/ Len(e.b) = 2
query_text(e) == IF e.kind = "pair" THEN e.b ELSE <<e.b[2]>>

\* lines 93-113; outs[i] is what the i-th search call does
RECURSIVE SearchLoop(_, _, _, _)
SearchLoop(results, queue, outs, i) ==
    IF i > Len(queue) THEN [search_results |-> results, raised |-> FALSE]
    ELSE IF ~Unpacks(queue[i]) THEN [search_results |-> results, raised |-> TRUE]
    ELSE SearchLoop(
            IF outs[i].ok
            THEN Append(results, SearchResult(query_text(queue[i]), outs[i].results))
            ELSE results,
            queue, outs, i + 1)

search(s, outs) ==
    LET r == SearchLoop(s.search_results, queries_to_search(s), outs, 1)
    IN  [state |-> [s EXCEPT !.search_results = r.search_results],
         raised |-> r.raised]

\* one search call: the agent raises, or _extract_search_results (118-157)
\* yields a list of results (the empty list when no JSON is found)
SearchRaises == [ok |-> FALSE, results |-> <<>>]
SearchReturns(rs) == [ok |-> TRUE, results |-> rs]
\* BatchSize is the [:3] of collector_agent.py:58 and verifier_agent.py:80
BatchSize == 3

ResultLists ==
    {<<>>, <<Result(0)>>, <<Result(1), Result(1)>>,
     [i \in 1..(BatchSize + 1) |-> Result(i)]}
SearchOutcomes == {SearchRaises} \cup {SearchReturns(rs) : rs \in ResultLists}

----------------------------------------------------------------------------
(* CollectorAgent.collect_data, collector_agent.py:40-87 *)

\* lines 47-54: one (url, title) per result of every SearchResult whose url
\* is non-empty and is not the url of an item of collected_data; a url that
\* occurs in several results is queued once per occurrence
urls_to_collect(s) ==
    LET all == Concat([i \in 1..Len(s.search_results) |-> s.search_results[i].results])
        Wanted(r) == r.url # 0 /\ r.url \notin Urls(s.collected_data)
    IN  SelectSeq(all, Wanted)

Picked(xs, sel) == [i \in 1..Len(sel) |-> xs[sel[i]]]

\* the items of a batch whose external call (ok[i] for the i-th) failed
RECURSIVE Unsuccessful(_, _)
Unsuccessful(items, ok) ==
    IF items = <<>> THEN <<>>
    ELSE (IF Head(ok) THEN <<>> ELSE <<Head(items)>>)
         \o Unsuccessful(Tail(items), Tail(ok))

\* the urls of a batch with the number of times each was selected
RECURSIVE UrlBag(_)
UrlBag(items) ==
    IF items = <<>> THEN EmptyBag ELSE SetToBag({Head(items).url}) (+) UrlBag(Tail(items))

CollectedAtReturns == FALSE

\* line 80 reads datetime.datime, which the datetime module does not have:
\* building the CollectedData raises AttributeError inside the try
CollectedAtRaises == TRUE

\* the loop body, lines 62-85: the item is appended when browse_website
\* returned and the CollectedData was built; any exception skips the item
CollectOne(cd, item, fetched) ==
    IF fetched /\ ~CollectedAtRaises
    THEN Append(cd, CollectedData(item.url, item.title))
    ELSE cd

RECURSIVE CollectLoop(_, _, _, _)
CollectLoop(cd, items, fetch, i) ==
    IF i > Len(items) THEN cd
    ELSE CollectLoop(CollectOne(cd, items[i], fetch[i]), items, fetch, i + 1)

\* sel: the shuffle and truncation of lines 57-58; fetch[i]: whether
\* browse_website returned for the i-th selected url
collect_data(s, sel, fetch) ==
    [state |-> [s EXCEPT !.collected_data =
                    CollectLoop(@, Picked(urls_to_collect(s), sel), fetch, 1)],
     raised |-> FALSE]

----------------------------------------------------------------------------
(* VerifierAgent.verify_data, verifier_agent.py:64-112 *)

data_to_verify_all(s) == s.collected_data

data_to_verify_uncollected(s) == urls_to_collect(s)

\* lines 74-76: the collected items whose url no verified item carries
data_to_verify(s) ==
    LET Unverified(d) == d.url \notin Urls(s.verified_data)
    IN  SelectSeq(s.collected_data, Unverified)

\* verify_content, lines 114-151: it catches every exception of the model
\* call itself and then returns (0.0, "", "Verification failed: ...")
verify_content(d, llm_ok) ==
    IF llm_ok THEN [score |-> 10, notes |-> "notes"]
    ELSE [score |-> 0, notes |-> "Verification failed"]

VerifyOneFront(vd, d, llm_ok) ==
    LET v == verify_content(d, llm_ok)
    IN  <<VerifiedData(d, v.score, v.notes)>> \o vd

\* the loop body, lines 84-110
VerifyOne(vd, d, llm_ok) ==
    LET v == verify_content(d, llm_ok)
    IN  Append(vd, VerifiedData(d, v.score, v.notes))

RECURSIVE VerifyLoop(_, _, _, _)
VerifyLoop(vd, items, llm, i) ==
    IF i > Len(items) THEN vd
    ELSE VerifyLoop(VerifyOne(vd, items[i], llm[i]), items, llm, i + 1)

verify_data_consuming(s, sel, llm) ==
    LET items == Picked(data_to_verify(s), sel)
        Kept(d) == d.url \notin Urls(items)
    IN  [state |-> [s EXCEPT !.verified_data = VerifyLoop(@, items, llm, 1),
                             !.collected_data = SelectSeq(@, Kept)],
         raised |-> FALSE]

verify_data(s, sel, llm) ==
    [state |-> [s EXCEPT !.verified_data =
                    VerifyLoop(@, Picked(data_to_verify(s), sel), llm, 1)],
     raised |-> FALSE]

----------------------------------------------------------------------------
(* SummarizerAgent.create_summary, summarizer_agent.py:43-76 *)

\* the threshold of summarizer_agent.py:50
MinVerified == 3

create_summary_unguarded(s, resp) ==
    IF resp.ok
    THEN [state |-> [s EXCEPT !.summary = Some(Strip(resp.text))], raised |-> FALSE]
    ELSE [state |-> s, raised |-> FALSE]

create_summary(s, resp) ==
    IF Len(s.verified_data) < MinVerified THEN [state |-> s, raised |-> FALSE]
    ELSE IF resp.ok
         THEN [state |-> [s EXCEPT !.summary = Some(Strip(resp.text))], raised |-> FALSE]
         ELSE [state |-> s, raised |-> FALSE]

----------------------------------------------------------------------------
(* ReportGeneratorAgent.generate_report, generator_agent.py:50-84 *)

generate_report_unguarded(s, resp) ==
    IF resp.ok
    THEN [state |-> [s EXCEPT !.report = Some(Strip(resp.text))], raised |-> FALSE]
    ELSE [state |-> s, raised |-> FALSE]

generate_report(s, resp) ==
    IF ~Truthy(s.summary) THEN [state |-> s, raised |-> FALSE]
    ELSE IF resp.ok
         THEN [state |-> [s EXCEPT !.report = Some(Strip(resp.text))], raised |-> FALSE]
         ELSE [state |-> s, raised |-> FALSE]

----------------------------------------------------------------------------
(* What the external calls may hand back *)

SubqueryResponses ==
    {Failure,
     Returned(<<>>),
     Returned(Q_ai),
     Returned(Q_nlp),
     Returned(Q_ai \o <<"\n">> \o Q_ai),
     Returned(<<" ">> \o Q_nlp \o <<" ", "\n", "\n">> \o Q_ai \o <<"\n">>)}

SummaryResponses ==
    {Failure, Returned(<<"S","1">>), Returned(<<" ","S","2","\n">>), Returned(<<" ">>)}

ReportResponses ==
    {Failure, Returned(<<"R","1">>), Returned(<<" ","R","2","\n">>), Returned(<<" ">>)}

\* advisory responses: concatenations of fragments, among them the action
\* names in several letter cases, a misspelt one, and text with no name
Fragments ==
    {W_generate_ \o W_subqueries,
     <<"G","e","n","e","r","a","t","e","_","S","U","B","Q","U","E","R","I","E","S">>,
     W_generate_ \o W_subqeries,
     W_generate_,
     W_search,
     <<"S","E","A","R","C","H">>,
     <<"r","e">>,
     W_collect,
     <<"V","e","r","i","f","y">>,
     W_summarize,
     W_generate_ \o W_report,
     <<"x","y","z">>,
     <<" ">>}

Contents == {Concat(fs) : fs \in SeqsUpTo(Fragments, MaxFrags)}

----------------------------------------------------------------------------
(* The states a stage or the selector is handed: the initialized state, and *)
(* states of a research in progress on one sub-query whose search found    *)
(* the urls 1..nr, of which 1..nc are collected and 1..nv verified.  They  *)
(* satisfy what the stages keep true: distinct urls, verified items only   *)
(* for collected urls, a summary only with MinVerified verified items, a   *)
(* report only with a summary.                                             *)

InProgress(nr, nc, nv, sm, rp) ==
    LET cd == [i \in 1..nc |-> CollectedData(i, "t")] IN
    [query |-> Q_main,
     sub_queries |-> <<Q_nlp>>,
     search_results |-> <<SearchResult(Q_nlp, [i \in 1..nr |-> Result(i)])>>,
     collected_data |-> cd,
     verified_data |-> [i \in 1..nv |-> VerifiedData(cd[i], 10, "notes")],
     summary |-> sm, report |-> rp, status |-> "initialized"]

Progress ==
    {p \in (0..NumUrls) \X (0..NumUrls) \X (0..NumUrls) : p[3] <= p[2] /\ p[2] <= p[1]}

StartStates ==
    {initialize_research(Q_main)}
    \cup {InProgress(p[1], p[2], p[3], None, None) : p \in Progress}
    \cup {InProgress(p[1], p[2], p[3], Some(<<"S","1">>), None) :
            p \in {x \in Progress : x[3] >= MinVerified}}
    \cup {InProgress(p[1], p[2], p[3], Some(<<"S","1">>), Some(<<"R","1">>)) :
            p \in {x \in Progress : x[3] >= MinVerified}}

----------------------------------------------------------------------------
(* The task registry of backend/api/research.py, lines 175-255.           *)

\* at most MaxTasks tasks are started
MaxTasks == 2
TaskIds == 1..MaxTasks

NoTasks == [id \in {} |-> {}]

ReusedId(tasks) == 1

\* line 180, str(uuid.uuid4()): an id no task has yet
FreshId(tasks) == CHOOSE id \in TaskIds : id \notin DOMAIN tasks

NewTaskExposingState(q) ==
    [status |-> "running", query |-> q, result |-> <<initialize_research(q)>>,
     error |-> <<>>]

\* start_research, lines 183-188
NewTask(q) == [status |-> "running", query |-> q, result |-> None, error |-> None]

\* run_research_task, lines 241-244
TaskCompleted(t, result) == [t EXCEPT !.status = "completed", !.result = Some(result)]

\* run_research_task, lines 251-255
TaskFailed(t, e) == [t EXCEPT !.status = "failed", !.error = Some(e)]

CallbackMayRaise == TRUE

\* lines 246-249: the callback notification is "pass"
CallbackRaises == FALSE

\* what the awaited run_research_workflow hands back (line 238)
WorkflowReturned(s) == [ok |-> TRUE, state |-> s]
WorkflowRaised == [ok |-> FALSE, state |-> None]

\* run_research_task once the awaited workflow has ended, lines 236-255;
\* nothing in it awaits, so it runs to its end in one step
run_research_task(t, out) ==
    IF ~out.ok THEN TaskFailed(t, "exception")
    ELSE IF CallbackRaises THEN TaskFailed(TaskCompleted(t, out.state), "callback")
    ELSE TaskCompleted(t, out.state)

\* an answer of the API: the HTTP code and, of the body, the task's status,
\* result and error where the endpoint sends them
Reply(op, id, code, st, res, err) ==
    [op |-> op, id |-> id, code |-> code, status |-> st, result |-> res, error |-> err]

NoReply == Reply("none", 0, 0, "none", None, None)

\* start_research, lines 199-203
start_research(tasks, id) == Reply("start", id, 200, "running", None, None)

\* get_research_status, lines 205-213: the whole record of the task
get_research_status(tasks, id) ==
    IF id \notin DOMAIN tasks
    THEN Reply("status", id, 404, "none", None, None)
    ELSE Reply("status", id, 200, tasks[id].status, tasks[id].result, tasks[id].error)

\* get_research_result, lines 215-230: the status and the result
get_research_result(tasks, id) ==
    IF id \notin DOMAIN tasks
    THEN Reply("result", id, 404, "none", None, None)
    ELSE IF tasks[id].status # "completed"
    THEN Reply("result", id, 400, "none", None, None)
    ELSE Reply("result", id, 200, tasks[id].status, tasks[id].result, None)

----------------------------------------------------------------------------
(* One stage invocation on the current state.  The state the stage returns *)
(* replaces it; when the stage raises, the state is kept as the stage left *)
(* it.                                                                     *)

\* state.model_copy() as every stage calls it (director_agent.py:148,
\* search_agent.py:79, collector_agent.py:44, verifier_agent.py:68,
\* summarizer_agent.py:47, generator_agent.py:54): deep is not given, so the
\* copy is shallow and its four lists are the lists of the original
SharedFields == {"sub_queries", "search_results", "collected_data", "verified_data"}

\* the object a stage was called with, once the stage has worked on its
\* copy and left the state r: what was appended to a shared list is in it,
\* what was assigned to a field of the copy is not
InputAfter(s, r) ==
    [f \in DOMAIN s |-> IF f \in SharedFields THEN r[f] ELSE s[f]]

Applied(name, r, b, f, ans) ==
    /\ calls < MaxCalls
    /\ calls' = calls + 1
    /\ state' = r.state
    /\ passed' = InputAfter(state, r.state)
    /\ answer' = ans
    /\ outcome' = IF r.raised THEN "raised" ELSE "ok"
    /\ lastOp' = name
    /\ batch' = UrlBag(b)
    /\ failed' = UrlBag(f)

StageGenerateSubqueries ==
    \E resp \in SubqueryResponses :
        Applied("generate_subqueries", generate_subqueries(state, resp), <<>>, <<>>,
                resp.text)

StageSearch ==
    /\ queries_to_search(state) = <<>> \/ Len(state.search_results) < MaxSearchResults
    /\ \E outs \in [1..Len(queries_to_search(state)) -> SearchOutcomes] :
        Applied("search", search(state, outs), <<>>, <<>>, <<>>)

StageCollect ==
    \E sel \in Selections(urls_to_collect(state), BatchSize) :
        \E fetch \in [1..Len(sel) -> BOOLEAN] :
            Applied("collect", collect_data(state, sel, fetch),
                    Picked(urls_to_collect(state), sel),
                    Unsuccessful(Picked(urls_to_collect(state), sel), fetch), <<>>)

StageVerify ==
    \E sel \in Selections(data_to_verify(state), BatchSize) :
        \E llm \in [1..Len(sel) -> BOOLEAN] :
            Applied("verify", verify_data(state, sel, llm),
                    Picked(data_to_verify(state), sel),
                    Unsuccessful(Picked(data_to_verify(state), sel), llm), <<>>)

\* workflow.py:38 registers summarizer.summarize; the agent's stage method
\* is create_summary
StageSummarize ==
    \E resp \in SummaryResponses :
        Applied("summarize", create_summary(state, resp), <<>>, <<>>, <<>>)

StageGenerateReport ==
    \E resp \in ReportResponses :
        Applied("generate_report", generate_report(state, resp), <<>>, <<>>, <<>>)

Idle ==
    /\ lastOp = "init"
    /\ outcome = "ok"
    /\ batch = EmptyBag
    /\ failed = EmptyBag
    /\ passed = state
    /\ answer = <<>>
    /\ asked = 0
    /\ research_tasks = NoTasks
    /\ reply = NoReply
    /\ content = <<>>
    /\ action = "none"
    /\ calls = 0
    /\ max_iterations = 0
    /\ iter = 0
    /\ routed = "none"

----------------------------------------------------------------------------
(* Spec: any sequence of stage invocations on a state a caller was handed  *)

GenerateSubqueries == StageGenerateSubqueries /\ UNCHANGED <<content, action, run_vars>>
Search == StageSearch /\ UNCHANGED <<content, action, run_vars>>
CollectData == StageCollect /\ UNCHANGED <<content, action, run_vars>>
VerifyData == StageVerify /\ UNCHANGED <<content, action, run_vars>>
CreateSummary == StageSummarize /\ UNCHANGED <<content, action, run_vars>>
GenerateReport == StageGenerateReport /\ UNCHANGED <<content, action, run_vars>>

Init ==
    /\ state \in StartStates
    /\ pc = "stages"
    /\ Idle

Next ==
    \/ GenerateSubqueries
    \/ Search
    \/ CollectData
    \/ VerifyData
    \/ CreateSummary
    \/ GenerateReport

Spec == Init /\ [][Next]_vars

----------------------------------------------------------------------------
(* SpecSel: next_step applied once to a state and an advisory response     *)

\* the selector is also handed a state with three sub-queries none of which
\* is searched, and one with five collected items of which two are verified
Q_ml == <<"m","l">>
SelectorStates ==
    StartStates
    \cup {[initialize_research(Q_main) EXCEPT !.sub_queries = <<Q_ai, Q_nlp, Q_ml>>],
          InProgress(5, 5, 2, None, None)}

InitSel ==
    /\ state \in SelectorStates
    /\ pc = "selector"
    /\ Idle

\* claude.invoke returned c (director_agent.py:81-111)
DirectorDecides ==
    /\ lastOp = "init"
    /\ \E c \in Contents :
        /\ content' = c
        /\ action' = next_step(c)
    /\ lastOp' = "next_step"
    /\ outcome' = "ok"
    /\ UNCHANGED <<state, batch, failed, passed, answer, calls, run_vars>>

\* claude.invoke raised: next_step returns nothing
DirectorRaises ==
    /\ lastOp = "init"
    /\ lastOp' = "next_step"
    /\ outcome' = "raised"
    /\ UNCHANGED <<state, batch, failed, passed, answer, content, action, calls, run_vars>>

NextSel == DirectorDecides \/ DirectorRaises

\* every action next_step can return, over all advisory responses
Decisions == {next_step(c) : c \in Contents}

SpecSel == InitSel /\ [][NextSel]_vars

----------------------------------------------------------------------------
(* SpecRun: the async run_research_workflow, workflow.py:63-91, driving    *)
(* the graph of create_research_workflow, workflow.py:17-61                *)

InitRun ==
    /\ state = initialize_research(Q_main)       \* line 78
    /\ pc = "loop"
    /\ lastOp = "init"
    /\ outcome = "ok"
    /\ batch = EmptyBag
    /\ failed = EmptyBag
    /\ passed = state
    /\ answer = <<>>
    /\ content = <<>>
    /\ action = "none"
    /\ calls = 0
    /\ max_iterations \in 0..MaxIter
    /\ iter = 0
    /\ routed = "none"
    /\ asked = 0
    /\ research_tasks = (1 :> NewTask(Q_main))   \* research.py:183-188
    /\ reply = NoReply

\* line 81: range(max_iterations) is exhausted; line 91 returns the state
LoopExhausted ==
    /\ pc = "loop"
    /\ iter >= max_iterations
    /\ pc' = "returned"
    /\ UNCHANGED <<stage_vars, content, action, iter, max_iterations, routed,
                   asked, api_vars>>

\* lines 81-86: a pass begins, the director is asked; "complete" breaks out
\* of the loop, anything else goes on to workflow.arun (line 89)
LoopDecides ==
    /\ pc = "loop"
    /\ iter < max_iterations
    /\ iter' = iter + 1
    /\ asked' = 1
    /\ action' \in Decisions
    /\ pc' = IF action' = "complete" THEN "returned" ELSE "arun"
    /\ UNCHANGED <<stage_vars, content, max_iterations, routed, api_vars>>

\* line 83 when claude.invoke raises: the exception leaves the function
LoopDirectorRaises ==
    /\ pc = "loop"
    /\ iter < max_iterations
    /\ iter' = iter + 1
    /\ asked' = 1
    /\ pc' = "raised"
    /\ UNCHANGED <<stage_vars, content, action, max_iterations, routed, api_vars>>

\* the graph's entry point and the target of every stage's edge is the
\* "director" node (lines 33, 51-59): next_step is evaluated again; its
\* result selects the edge (lines 42-48), "complete" leading to END
GraphDirector ==
    /\ pc = "arun"
    /\ asked' = asked + 1
    /\ routed' \in Decisions
    /\ pc' = IF routed' = "complete" THEN "loop" ELSE "stage"
    /\ UNCHANGED <<stage_vars, content, action, iter, max_iterations, api_vars>>

GraphDirectorRaises ==
    /\ pc = "arun"
    /\ asked' = asked + 1
    /\ pc' = "raised"
    /\ UNCHANGED <<stage_vars, content, action, iter, max_iterations, routed,
                   api_vars>>

AfterStageSwallowed(o) == "arun"

\* a node that returned is followed by its edge back to the director
\* (lines 51-56); an exception of the node leaves the graph and the run
AfterStage(o) == IF o = "raised" THEN "raised" ELSE "arun"

\* the node the edge leads to runs (lines 34-39)
Routed(name) ==
    /\ pc = "stage"
    /\ routed = name
    /\ pc' = AfterStage(outcome')
    /\ UNCHANGED <<content, action, iter, max_iterations, routed, asked, api_vars>>

NodeGenerateSubqueries == StageGenerateSubqueries /\ Routed("generate_subqueries")
NodeSearch == StageSearch /\ Routed("search")
NodeCollect == StageCollect /\ Routed("collect")
NodeVerify == StageVerify /\ Routed("verify")
NodeSummarize == StageSummarize /\ Routed("summarize")
NodeGenerateReport == StageGenerateReport /\ Routed("generate_report")

\* run_research_task, research.py:236-255: the awaited workflow returned
\* its state or raised, and the task record is updated
RunResearchTaskEnds ==
    /\ pc \in {"returned", "raised"}
    /\ research_tasks' =
          [research_tasks EXCEPT ![1] =
              run_research_task(@, IF pc = "returned" THEN WorkflowReturned(state)
                                   ELSE WorkflowRaised)]
    /\ pc' = "done"
    /\ UNCHANGED <<stage_vars, content, action, iter, max_iterations, routed,
                   asked, reply>>

NextRun ==
    \/ LoopExhausted
    \/ LoopDecides
    \/ LoopDirectorRaises
    \/ GraphDirector
    \/ GraphDirectorRaises
    \/ NodeGenerateSubqueries
    \/ NodeSearch
    \/ NodeCollect
    \/ NodeVerify
    \/ NodeSummarize
    \/ NodeGenerateReport
    \/ RunResearchTaskEnds

SpecRun == InitRun /\ [][NextRun]_vars

----------------------------------------------------------------------------
(* SpecApi: the registry under requests.  A task's workflow run is taken   *)
(* by its end alone: it returns a state or raises (SpecRun follows it).    *)

Queries == {Q_main, Q_ai}

InitApi ==
    /\ state = initialize_research(Q_main)
    /\ pc = "api"
    /\ lastOp = "init"
    /\ outcome = "ok"
    /\ batch = EmptyBag
    /\ failed = EmptyBag
    /\ passed = state
    /\ answer = <<>>
    /\ content = <<>>
    /\ action = "none"
    /\ calls = 0
    /\ max_iterations = 0
    /\ iter = 0
    /\ routed = "none"
    /\ asked = 0
    /\ research_tasks = NoTasks
    /\ reply = NoReply

\* POST /start, lines 175-203
StartResearch ==
    /\ DOMAIN research_tasks # TaskIds
    /\ \E q \in Queries :
        LET id == FreshId(research_tasks) IN
        /\ research_tasks' =
              [i \in DOMAIN research_tasks \cup {id} |->
                  IF i = id THEN NewTask(q) ELSE research_tasks[i]]
        /\ reply' = start_research(research_tasks, id)
    /\ UNCHANGED <<stage_vars, content, action, loop_vars>>

\* the background task of a started research ends, lines 232-255
RunResearchTask ==
    \E id \in DOMAIN research_tasks :
        /\ research_tasks[id].status = "running"
        /\ \E out \in {WorkflowReturned(initialize_research(research_tasks[id].query)),
                        WorkflowRaised} :
              research_tasks' =
                  [research_tasks EXCEPT ![id] = run_research_task(@, out)]
        /\ UNCHANGED <<stage_vars, content, action, loop_vars, reply>>

\* GET /status/{task_id}
GetResearchStatus ==
    /\ \E id \in TaskIds : reply' = get_research_status(research_tasks, id)
    /\ UNCHANGED <<stage_vars, content, action, loop_vars, research_tasks>>

\* GET /result/{task_id}
GetResearchResult ==
    /\ \E id \in TaskIds : reply' = get_research_result(research_tasks, id)
    /\ UNCHANGED <<stage_vars, content, action, loop_vars, research_tasks>>

NextApi ==
    \/ StartResearch
    \/ RunResearchTask
    \/ GetResearchStatus
    \/ GetResearchResult

SpecApi == InitApi /\ [][NextApi]_vars

----------------------------------------------------------------------------
(* Claims *)

\* the fixed, closed action set the selector is to stay in
ActionSet ==
    {"generate_subqueries", "search", "collect", "verify", "summarize",
     "generate_report", "complete"}

\* the fixed order in which the action names are to be tried
ActionOrder ==
    <<"generate_subqueries", "search", "collect", "verify", "summarize",
      "generate_report">>

\* C1: a run with max_iterations = N invokes at most N stage functions and
\* then returns, and when the selector never returned "complete" the
\* returned state has the status "stopped".
C1_RunBoundedAndStopped ==
    /\ calls <= max_iterations
    /\ (pc = "returned" /\ action # "complete") => state.status = "stopped"

\* C2: collected_data never holds two items with the same url, also when a
\* url occurs in several search results and one collect_data call selects
\* it twice.
C2_NoDuplicateCollected == NoDuplicateUrls(state.collected_data)

C2_Witness ==
    /\ lastOp = "collect"
    /\ outcome = "ok"
    /\ \E u \in BagToSet(batch) : CopiesIn(u, batch) >= 2

C4_SequencesOnlyGrow ==
    [][/\ IsPrefix(state.sub_queries, state'.sub_queries)
       /\ IsPrefix(state.search_results, state'.search_results)
       /\ IsPrefix(state.collected_data, state'.collected_data)
       /\ IsPrefix(state.verified_data, state'.verified_data)]_vars

C4_Witness ==
    /\ Len(state.sub_queries) >= 2
    /\ lastOp = "verify"
    /\ batch # EmptyBag
    /\ Len(state.verified_data) >= 2

\* C5: once summary is non-empty no stage invocation changes it.
C5_SummaryWrittenOnce ==
    [][Truthy(state.summary) => state'.summary = state.summary]_vars

\* C6: once report is non-empty no stage invocation changes it.
C6_ReportWrittenOnce ==
    [][Truthy(state.report) => state'.report = state.report]_vars

Returned_next_step == lastOp = "next_step" /\ outcome = "ok"

\* C7: whatever the advisory response, next_step returns a member of the
\* closed action set, and the graph dispatches only on members of that set.
C7_SelectorTotal ==
    /\ Returned_next_step => action \in ActionSet
    /\ GraphActions \subseteq ActionSet

C7_Witness ==
    /\ Returned_next_step
    /\ content = <<"x","y","z">>
    /\ action = "search"

NamesNoAction(c) ==
    \A a \in DOMAIN ActionText : ~Contains(Lower(c), ActionText[a])

\* C8: a response that contains none of the action names, in any letter
\* case, yields "search".
C8_UnrecognizedYieldsSearch ==
    (Returned_next_step /\ NamesNoAction(content)) => action = "search"

\* the first action name, in the fixed order, that occurs in the response
FirstNamed(c) ==
    LET hits == {i \in 1..Len(ActionOrder) : Contains(Lower(c), ActionText[ActionOrder[i]])}
    IN  ActionOrder[CHOOSE i \in hits : \A j \in hits : i <= j]

\* C9: the response is matched case-insensitively against the action names
\* in the order generate_subqueries, search, collect, verify, summarize,
\* generate_report, and the first name found is the action.
C9_FirstNamedActionWins ==
    (Returned_next_step /\ ~NamesNoAction(content)) => action = FirstNamed(content)

\* none of the selection rules 1-6 applies to s
NothingLeftToDo(s) ==
    /\ s.sub_queries # <<>>
    /\ \A i \in 1..Len(s.sub_queries) :
          \E j \in 1..Len(s.search_results) : s.search_results[j].query = s.sub_queries[i]
    /\ urls_to_collect(s) = <<>>
    /\ data_to_verify(s) = <<>>
    /\ ~(Len(s.verified_data) >= 3 /\ ~Truthy(s.summary))
    /\ ~(Truthy(s.summary) /\ ~Truthy(s.report))

\* C10: when none of the rules 1-6 applies to the state the selector
\* returns "complete".
C10_CompleteWhenNothingLeft ==
    (Returned_next_step /\ NothingLeftToDo(state)) => action = "complete"

\* C11: a run from the initialized state with max_iterations = 1 executes
\* exactly one stage, that stage is generate_subqueries, and the state the
\* run returns has the status "stopped".  (How many sub-queries the stage
\* adds is the number of distinct lines the provider answered.)
C11_OnePassGeneratesSubqueries ==
    max_iterations = 1 =>
        /\ calls <= 1
        /\ calls = 1 => lastOp = "generate_subqueries"
        /\ pc = "returned" => (calls = 1 /\ state.status = "stopped")

AllSearched(s) ==
    \A i \in 1..Len(s.sub_queries) :
        \E j \in 1..Len(s.search_results) : s.search_results[j].query = s.sub_queries[i]

\* C12: for a state with sub-queries of which at least one has no
\* SearchResult with an equal query the selector returns "search".
C12_SearchWhenUnsearched ==
    (Returned_next_step /\ state.sub_queries # <<>> /\ ~AllSearched(state))
        => action = "search"

NothingToSearchOrCollect(s) ==
    /\ s.sub_queries # <<>>
    /\ AllSearched(s)
    /\ urls_to_collect(s) = <<>>

\* C13: for a state with every sub-query searched and every result url
\* collected in which some collected item has no verified item the selector
\* returns "verify", also with 5 collected and 2 verified items.
C13_VerifyBeforeSummarize ==
    (Returned_next_step /\ NothingToSearchOrCollect(state) /\ data_to_verify(state) # <<>>)
        => action = "verify"

ReadyToSummarize(s) ==
    /\ NothingToSearchOrCollect(s)
    /\ data_to_verify(s) = <<>>
    /\ Len(s.verified_data) >= 3
    /\ ~Truthy(s.summary)

\* C14: for a state with nothing left to search, collect or verify, at least
\* 3 verified items and no summary the selector returns "summarize", and
\* create_summary on it with a synthesis call that returned a text which is
\* not blank yields a non-empty summary.
C14_SummarizeWhenReady ==
    (Returned_next_step /\ ReadyToSummarize(state)) =>
        /\ action = "summarize"
        /\ \A resp \in SummaryResponses :
              (resp.ok /\ Strip(resp.text) # <<>>)
                  => Truthy(create_summary(state, resp).state.summary)

Min(a, b) == IF a < b THEN a ELSE b

\* C15: one collect_data call on a state with P urls not yet collected
\* attempts min(P, 3) of them, appends one CollectedData for each attempt
\* that succeeded and none for one that failed, and a url whose attempt
\* failed is still to be collected afterwards.
C15_CollectBatch ==
    [][lastOp' = "collect" =>
          /\ BagCardinality(batch') = Min(Len(urls_to_collect(state)), BatchSize)
          /\ Len(state'.collected_data) =
                 Len(state.collected_data) + BagCardinality(batch') - BagCardinality(failed')
          /\ \A u \in BagToSet(failed') : u \in Urls(urls_to_collect(state'))]_vars

StageNames ==
    {"generate_subqueries", "search", "collect", "verify", "summarize",
     "generate_report"}

\* C16: once a stage has raised, no further stage is invoked and the state
\* is not touched, the task is never recorded as completed, and when
\* run_research_task has ended the task record has the status "failed" and
\* carries the error.
C16_StageExceptionFailsRun ==
    /\ [](outcome = "raised" =>
            /\ research_tasks[1].status # "completed"
            /\ pc = "done" =>
                  /\ research_tasks[1].status = "failed"
                  /\ research_tasks[1].error # None)
    /\ [][outcome = "raised" =>
            /\ calls' = calls
            /\ state' = state
            /\ pc' \in {"raised", "done"}]_vars

C16_Witness ==
    /\ lastOp = "search"
    /\ outcome = "raised"
    /\ pc = "done"
    /\ research_tasks[1].status = "failed"

\* C17: no search invocation raises: whatever the search calls do, the
\* stage returns a state.
C17_SearchNeverRaises == lastOp = "search" => outcome = "ok"

\* C18: in a pass of the run loop next_step is called exactly once, and the
\* stage executed in the pass is the one that call named.
C18_OneDecisionPerPass ==
    /\ asked <= 1
    /\ lastOp \in StageNames => (asked = 1 /\ lastOp = action)

\* C19: when the verification call fails for a selected item, verify_data
\* appends no VerifiedData for it, appends one for every other selected
\* item, and the item is still to be verified afterwards.
C19_FailedVerificationSkipsItem ==
    [][lastOp' = "verify" =>
          /\ Len(state'.verified_data) =
                 Len(state.verified_data) + BagCardinality(batch') - BagCardinality(failed')
          /\ \A u \in BagToSet(failed') : u \in Urls(data_to_verify(state'))]_vars

Terminal == {"completed", "stopped", "failed"}

\* C20: once the status of a task is completed, stopped or failed, no
\* later request and no later step of any task changes it.
C20_TerminalStatusIsFinal ==
    [][\A id \in DOMAIN research_tasks :
          research_tasks[id].status \in Terminal =>
              /\ id \in DOMAIN research_tasks'
              /\ research_tasks'[id].status = research_tasks[id].status]_vars

C20_Witness ==
    /\ DOMAIN research_tasks = TaskIds
    /\ research_tasks[1].status = "failed"
    /\ research_tasks[2].status = "completed"
    /\ reply = get_research_status(research_tasks, 1)

SearchResultUrls(s) ==
    UNION {Urls(s.search_results[i].results) : i \in 1..Len(s.search_results)}

\* C21: every url of collected_data is the url of a result of some
\* SearchResult, and every url of verified_data is the url of an item of
\* collected_data.
C21_ProvenanceSubsets ==
    /\ Urls(state.collected_data) \subseteq SearchResultUrls(state)
    /\ Urls(state.verified_data) \subseteq Urls(state.collected_data)

C21_Witness ==
    /\ lastOp = "verify"
    /\ calls = 1
    /\ BagCardinality(batch) = 2
    /\ Len(state.verified_data) = 2
    /\ Len(state.collected_data) = 2

\* C22: what the status and the result endpoint send for the task of a run
\* carries a research state only after the run has ended, and then the
\* state the run returned; at every earlier moment, a stage having run or
\* not, they carry none.
C22_NoPartialStateExposed ==
    \A r \in {get_research_status(research_tasks, 1),
              get_research_result(research_tasks, 1)} :
        r.result # None => (pc = "done" /\ r.result = Some(state))

C22_Witness ==
    /\ pc = "stage"
    /\ calls >= 1
    /\ state.sub_queries # <<>>
    /\ get_research_status(research_tasks, 1).status = "running"
    /\ get_research_status(research_tasks, 1).result = None
    /\ get_research_result(research_tasks, 1).code = 400

NoDuplicates(xs) == \A i, j \in 1..Len(xs) : xs[i] = xs[j] => i = j

\* C23: whatever lines the model returns, a line equal to an existing
\* sub-query or the same line twice among them, sub_queries holds no two
\* equal strings.
C23_NoDuplicateSubqueries == NoDuplicates(state.sub_queries)

C23_Witness ==
    /\ lastOp = "generate_subqueries"
    /\ outcome = "ok"
    /\ calls = 2
    /\ answer = Q_ai \o <<"\n">> \o Q_ai
    /\ state.sub_queries = <<Q_nlp, Q_ai>>

\* the queries a search is to make on s, in order
PendingQueries(s) ==
    LET Unsearched(q) ==
            \A i \in 1..Len(s.search_results) : s.search_results[i].query # q
    IN  IF s.sub_queries # <<>> THEN SelectSeq(s.sub_queries, Unsearched)
        ELSE IF Unsearched(s.query) THEN <<s.query>> ELSE <<>>

\* C24: one search call appends one SearchResult for each sub-query without
\* a SearchResult of an equal query, in sub_queries order (for the root
\* query when there are no sub-queries), and none for any other query.
C24_SearchesEachPendingQuery ==
    [][lastOp' = "search" =>
          /\ Len(state'.search_results) =
                 Len(state.search_results) + Len(PendingQueries(state))
          /\ \A i \in 1..Len(PendingQueries(state)) :
                 state'.search_results[Len(state.search_results) + i].query
                     = PendingQueries(state)[i]]_vars

\* C25: the summarize stage on a state with fewer than 3 verified items
\* returns the state unchanged and raises nothing, whatever the model would
\* have answered.
C25_SummarizeNoOpBelowThreshold ==
    [][(lastOp' = "summarize" /\ Len(state.verified_data) < 3) =>
          /\ state' = state
          /\ outcome' = "ok"
          /\ \A resp \in SummaryResponses :
                 create_summary(state, resp) = [state |-> state, raised |-> FALSE]]_vars

C25_Witness ==
    /\ lastOp = "summarize"
    /\ outcome = "ok"
    /\ Len(state.verified_data) = 2
    /\ state.summary = None

UnverifiedCount(s) ==
    Cardinality({i \in 1..Len(s.collected_data) :
                    \A j \in 1..Len(s.verified_data) :
                        s.verified_data[j].url # s.collected_data[i].url})

Occurrences(items, u) == Cardinality({i \in 1..Len(items) : items[i].url = u})

Target ==
    [generate_subqueries |-> "sub_queries", search |-> "search_results",
     collect |-> "collected_data", verify |-> "verified_data",
     summarize |-> "summary", generate_report |-> "report"]

\* C28: a stage leaves every field of the state but its own as it was, and
\* no stage changes query.
C28_StagesTouchOwnFieldOnly ==
    [][lastOp' \in DOMAIN Target =>
          \A f \in DOMAIN state : f # Target[lastOp'] => state'[f] = state[f]]_vars

C28_Witness ==
    /\ lastOp = "search"
    /\ outcome = "ok"
    /\ calls = 1
    /\ state.sub_queries = <<>>
    /\ Len(state.search_results) = 1
    /\ Len(state.search_results[1].results) = BatchSize + 1

\* C29: after generate_subqueries, search, collect_data or verify_data has
\* returned, the state object it was called with has the sequences it had
\* before the call.
C29_InputStateUntouched ==
    [][lastOp' \in {"generate_subqueries", "search", "collect", "verify"} =>
          \A f \in SharedFields : passed'[f] = state[f]]_vars

\* C30: a completed task has its result, a failed one its error and no
\* result; the result endpoint answers 404 for an unknown id, 400 for a
\* task that is not completed, and sends a result only for a completed one.
C30_RegistryConsistent ==
    /\ [](/\ \A id \in DOMAIN research_tasks :
                /\ research_tasks[id].status = "completed"
                      => research_tasks[id].result # None
                /\ research_tasks[id].status = "failed"
                      => /\ research_tasks[id].error # None
                         /\ research_tasks[id].result = None
          /\ (reply.op = "result" /\ reply.code = 200) =>
                /\ reply.id \in DOMAIN research_tasks
                /\ research_tasks[reply.id].status = "completed"
                /\ reply.result = research_tasks[reply.id].result
          /\ (reply.op = "result" /\ reply.code # 200) => reply.result = None)
    /\ [][(reply' # reply /\ reply'.op = "result") =>
             /\ reply'.code = 404 <=> reply'.id \notin DOMAIN research_tasks
             /\ reply'.code = 400 <=>
                   /\ reply'.id \in DOMAIN research_tasks
                   /\ research_tasks[reply'.id].status # "completed"
             /\ reply'.code \in {200, 400, 404}]_vars

C30_Witness ==
    /\ DOMAIN research_tasks = TaskIds
    /\ research_tasks[1].status = "completed"
    /\ research_tasks[2].status = "failed"
    /\ reply = get_research_result(research_tasks, 1)
    /\ reply.code = 200

====
